---- MODULE Spec2Model ----
(***************************************************************************)
(* Model of app1/models.py: the Customer and Order tables, the constraints *)
(* their field declarations put on the stored rows (unique=True on         *)
(* Customer.email and Order.order_number, the ForeignKey Order.customer    *)
(* with on_delete=CASCADE and related_name="orders", auto_now_add on the   *)
(* two timestamps) and the two __str__ methods.                            *)
(*                                                                         *)
(* A table is a function from primary key to row.  Every action is one     *)
(* call of the model API on a row that is stored (create, save of one      *)
(* changed field, delete, str); `result` is what the call returned or      *)
(* raised.                                                                 *)
(***************************************************************************)
EXTENDS Integers, FiniteSets, Sequences, TLC

\* ---------------------------------------------------------------- bounds
MaxCustomerId == 2
MaxOrderId == 2

\* ---------------------------------------------------------- input values
None == "None"
FirstNames == {"Ada", "Grace"}
LastNames == {"Lovelace"}
Emails == {"ada@example.com", "grace@example.com"}
PhoneNumbers == {None}
Addresses == {None}
Instants == 0..1
OrderNumbers == {"ORD-1", "ORD-2"}
CustomerIds == 1..MaxCustomerId
OrderIds == 1..MaxOrderId

CustomerFields == {"first_name", "last_name", "email", "phone_number", "address"}
OrderFields == {"customer", "order_number"}

VARIABLES Customer, Order, next_customer_id, next_order_id, now, result

vars == <<Customer, Order, next_customer_id, next_order_id, now, result>>

\* ------------------------------------------------- what a call hands back
Returned(status, text, count) == [status |-> status, text |-> text, count |-> count]
Created == Returned("created", "", 0)
Saved == Returned("saved", "", 0)
Deleted(count) == Returned("deleted", "", count)
Shown(text) == Returned("str", text, 0)
IntegrityError(constraint) == Returned("IntegrityError", constraint, 0)
EmailTaken == IntegrityError("UNIQUE constraint failed: customer.email")
OrderNumberTaken == IntegrityError("UNIQUE constraint failed: order.order_number")
NoSuchCustomer == IntegrityError("FOREIGN KEY constraint failed")

\* ------------------------------------------------------ table primitives
Insert(table, pk, row) == [k \in DOMAIN table \cup {pk} |-> IF k = pk THEN row ELSE table[k]]
Remove(table, pks) == [k \in DOMAIN table \ pks |-> table[k]]

\* Values a field of a row may be set to.
CustomerValues(field) ==
    CASE field = "first_name" -> FirstNames
      [] field = "last_name" -> LastNames
      [] field = "email" -> Emails
      [] field = "phone_number" -> PhoneNumbers
      [] field = "address" -> Addresses
OrderValues(field) ==
    CASE field = "customer" -> CustomerIds
      [] field = "order_number" -> OrderNumbers

\* ----------------------------------------------------- field declarations
\* email = EmailField(unique=True): no row other than pk holds this email.
email_unique_off(email, pk) == TRUE
email_unique_insert_only(email, pk) ==
    pk \in DOMAIN Customer \/ \A c \in DOMAIN Customer : Customer[c].email # email
email_unique(email, pk) ==
    \A c \in DOMAIN Customer \ {pk} : Customer[c].email # email

\* order_number = CharField(unique=True)
order_number_unique_off(order_number, pk) == TRUE
order_number_unique(order_number, pk) ==
    \A o \in DOMAIN Order \ {pk} : Order[o].order_number # order_number

\* customer = ForeignKey(Customer): the referenced row is stored.
customer_ever_assigned(customer_id) == customer_id \in 1..(next_customer_id - 1)
customer_unchecked(customer_id) == TRUE
customer_references(customer_id) == customer_id \in DOMAIN Customer

\* on_delete=CASCADE: the Order rows collected for deletion with a Customer.
DO_NOTHING(customer_id) == {}
CASCADE_ALL(customer_id) == DOMAIN Order
CASCADE(customer_id) == {o \in DOMAIN Order : Order[o].customer = customer_id}

\* related_name="orders": the reverse accessor of a Customer.
orders(customer_id) == {o \in DOMAIN Order : Order[o].customer = customer_id}

\* DateTimeField(auto_now_add=True): stamped when the row is added, and
\* written back as loaded on every later save.
auto_now(add, value) == now
auto_now_add(add, value) == IF add THEN now ELSE value

\* def __str__(self): return f"{self.first_name} {self.last_name}"
Customer__str__swapped(self) == self.last_name \o " " \o self.first_name
Customer__str__(self) == self.first_name \o " " \o self.last_name

\* def __str__(self): return self.order_number
Order__str__default(self) == "Order object"
Order__str__(self) == self.order_number

\* ------------------------------------------------------------------ Init
Init ==
    /\ Customer = <<>>
    /\ Order = <<>>
    /\ next_customer_id = 1
    /\ next_order_id = 1
    /\ now = 0
    /\ result = Returned("migrated", "", 0)

\* --------------------------------------------------------------- actions
\* Customer.objects.create(...)
Customer_create(first_name, last_name, email, phone_number, address) ==
    /\ next_customer_id <= MaxCustomerId
    /\ IF email_unique(email, next_customer_id)
       THEN /\ Customer' = Insert(Customer, next_customer_id,
                                  [first_name |-> first_name,
                                   last_name |-> last_name,
                                   email |-> email,
                                   phone_number |-> phone_number,
                                   address |-> address,
                                   date_joined |-> auto_now_add(TRUE, None)])
            /\ next_customer_id' = next_customer_id + 1
            /\ result' = Created
       ELSE /\ result' = EmailTaken
            /\ UNCHANGED <<Customer, next_customer_id>>
    /\ UNCHANGED <<Order, next_order_id, now>>

\* c = Customer.objects.get(pk=pk); c.<field> = value; c.save()
Customer_save(pk, field, value) ==
    /\ pk \in DOMAIN Customer
    /\ LET loaded == [Customer[pk] EXCEPT ![field] = value]
           row == [loaded EXCEPT !.date_joined = auto_now_add(FALSE, loaded.date_joined)]
       IN IF email_unique(row.email, pk)
          THEN /\ Customer' = [Customer EXCEPT ![pk] = row]
               /\ result' = Saved
          ELSE /\ result' = EmailTaken
               /\ UNCHANGED Customer
    /\ UNCHANGED <<Order, next_customer_id, next_order_id, now>>

\* Customer.objects.get(pk=pk).delete()
Customer_delete(pk) ==
    /\ pk \in DOMAIN Customer
    /\ LET collected == CASCADE(pk)
       IN /\ Order' = Remove(Order, collected)
          /\ Customer' = Remove(Customer, {pk})
          /\ result' = Deleted(1 + Cardinality(collected))
    /\ UNCHANGED <<next_customer_id, next_order_id, now>>

\* The errors the store may raise for an Order row: the source fixes no
\* order between the two constraints, so a row breaking both raises either.
OrderErrors(row, pk) ==
    (IF order_number_unique(row.order_number, pk) THEN {} ELSE {OrderNumberTaken})
    \cup (IF customer_references(row.customer) THEN {} ELSE {NoSuchCustomer})

\* Order.objects.create(customer_id=..., order_number=...)
Order_create(customer_id, order_number) ==
    /\ next_order_id <= MaxOrderId
    /\ LET row == [customer |-> customer_id,
                   order_number |-> order_number,
                   created_at |-> auto_now_add(TRUE, None)]
           errors == OrderErrors(row, next_order_id)
       IN IF errors = {}
          THEN /\ Order' = Insert(Order, next_order_id, row)
               /\ next_order_id' = next_order_id + 1
               /\ result' = Created
          ELSE /\ result' \in errors
               /\ UNCHANGED <<Order, next_order_id>>
    /\ UNCHANGED <<Customer, next_customer_id, now>>

\* o = Order.objects.get(pk=pk); o.<field> = value; o.save()
Order_save(pk, field, value) ==
    /\ pk \in DOMAIN Order
    /\ LET loaded == [Order[pk] EXCEPT ![field] = value]
           row == [loaded EXCEPT !.created_at = auto_now_add(FALSE, loaded.created_at)]
           errors == OrderErrors(row, pk)
       IN IF errors = {}
          THEN /\ Order' = [Order EXCEPT ![pk] = row]
               /\ result' = Saved
          ELSE /\ result' \in errors
               /\ UNCHANGED Order
    /\ UNCHANGED <<Customer, next_customer_id, next_order_id, now>>

\* Order.objects.get(pk=pk).delete()
Order_delete(pk) ==
    /\ pk \in DOMAIN Order
    /\ Order' = Remove(Order, {pk})
    /\ result' = Deleted(1)
    /\ UNCHANGED <<Customer, next_customer_id, next_order_id, now>>

\* str(Customer.objects.get(pk=pk))
Customer_str(pk) ==
    /\ pk \in DOMAIN Customer
    /\ result' = Shown(Customer__str__(Customer[pk]))
    /\ UNCHANGED <<Customer, Order, next_customer_id, next_order_id, now>>

\* str(Order.objects.get(pk=pk))
Order_str(pk) ==
    /\ pk \in DOMAIN Order
    /\ result' = Shown(Order__str__(Order[pk]))
    /\ UNCHANGED <<Customer, Order, next_customer_id, next_order_id, now>>

\* Time passes between calls.
Tick ==
    /\ now + 1 \in Instants
    /\ now' = now + 1
    /\ UNCHANGED <<Customer, Order, next_customer_id, next_order_id, result>>

Next ==
    \/ \E fn \in FirstNames, ln \in LastNames, em \in Emails,
          ph \in PhoneNumbers, ad \in Addresses : Customer_create(fn, ln, em, ph, ad)
    \/ \E pk \in CustomerIds, f \in CustomerFields :
          \E v \in CustomerValues(f) : Customer_save(pk, f, v)
    \/ \E pk \in CustomerIds : Customer_delete(pk)
    \/ \E c \in CustomerIds, n \in OrderNumbers : Order_create(c, n)
    \/ \E pk \in OrderIds, f \in OrderFields :
          \E v \in OrderValues(f) : Order_save(pk, f, v)
    \/ \E pk \in OrderIds : Order_delete(pk)
    \/ \E pk \in CustomerIds : Customer_str(pk)
    \/ \E pk \in OrderIds : Order_str(pk)
    \/ Tick

Spec == Init /\ [][Next]_vars

\* ------------------------------------------------------ derived notions
\* Primary keys that were handed out and whose row has since been deleted.
DeletedCustomers == (1..(next_customer_id - 1)) \ DOMAIN Customer
EmailStored(email, except) == \E c \in DOMAIN Customer \ except : Customer[c].email = email
OrderNumberStored(order_number) == \E o \in DOMAIN Order : Order[o].order_number = order_number
StoredUnchanged == Customer' = Customer /\ Order' = Order

\* ---------------------------------------------------------------- claims
\* C1: in every reachable state no two distinct Customer rows have the same
\* email.
C1_EmailsDistinct ==
    \A c1, c2 \in DOMAIN Customer : c1 # c2 => Customer[c1].email # Customer[c2].email
C1_Witness ==
    /\ Cardinality(DOMAIN Customer) = 2
    /\ result = EmailTaken

\* C2: creating a Customer with the email of a stored Customer, or saving a
\* Customer with the email of a different stored Customer, raises the
\* uniqueness error and leaves the stored Customer and Order rows as they were.
C2_DuplicateEmailRejected ==
    [][\A em \in Emails :
          /\ EmailStored(em, {})
                => \A fn \in FirstNames, ln \in LastNames,
                      ph \in PhoneNumbers, ad \in Addresses :
                      Customer_create(fn, ln, em, ph, ad)
                          => (result' = EmailTaken /\ StoredUnchanged)
          /\ \A pk \in CustomerIds :
                (EmailStored(em, {pk}) /\ Customer_save(pk, "email", em))
                    => (result' = EmailTaken /\ StoredUnchanged)]_vars
C2_Witness ==
    /\ result = EmailTaken
    /\ Cardinality(DOMAIN Customer) = 1
    /\ Order # <<>>

C4_AlwaysReferentialError ==
    [][/\ \A c \in CustomerIds, n \in OrderNumbers :
             (c \notin DOMAIN Customer /\ Order_create(c, n))
                 => (result' = NoSuchCustomer /\ StoredUnchanged)
       /\ \A pk \in OrderIds, c \in CustomerIds :
             (c \notin DOMAIN Customer /\ Order_save(pk, "customer", c))
                 => (result' = NoSuchCustomer /\ StoredUnchanged)]_vars

\* C4 (amended): creating an Order, or saving an Order's customer reference,
\* with a Customer id that is not stored (never handed out, or deleted since)
\* fails and leaves the stored rows as they were; the error is the
\* referential-integrity error, except that a create whose order_number is
\* also that of a stored Order may raise the uniqueness error instead.
C4_MissingCustomerRejected ==
    [][/\ \A c \in CustomerIds, n \in OrderNumbers :
             (c \notin DOMAIN Customer /\ Order_create(c, n))
                 => /\ result' \in {NoSuchCustomer, OrderNumberTaken}
                    /\ ~OrderNumberStored(n) => result' = NoSuchCustomer
                    /\ StoredUnchanged
       /\ \A pk \in OrderIds, c \in CustomerIds :
             (c \notin DOMAIN Customer /\ Order_save(pk, "customer", c))
                 => (result' = NoSuchCustomer /\ StoredUnchanged)]_vars
C4_Witness ==
    /\ result = NoSuchCustomer
    /\ DeletedCustomers # {}
    /\ next_customer_id = MaxCustomerId + 1
    /\ Order # <<>>

\* C5: deleting Customer c removes c and, in the same step, every Order that
\* references c, and in every state no stored Order references a deleted
\* Customer.
C5_DeleteCascades ==
    /\ [](\A o \in DOMAIN Order : Order[o].customer \notin DeletedCustomers)
    /\ [][\A pk \in CustomerIds :
             Customer_delete(pk)
                 => /\ pk \notin DOMAIN Customer'
                    /\ \A o \in DOMAIN Order' : Order'[o].customer # pk
                    /\ \A o \in DOMAIN Order : Order[o].customer = pk => o \notin DOMAIN Order']_vars
C5_Witness ==
    /\ result.status = "deleted"
    /\ result.count > 1
    /\ DeletedCustomers # {}

\* C6: date_joined and created_at are set to the time of creation when the row
\* is created, and no step changes them while the row is stored.
C6_TimestampsFixed ==
    [][/\ \A c \in DOMAIN Customer' \ DOMAIN Customer : Customer'[c].date_joined = now
       /\ \A c \in DOMAIN Customer' \cap DOMAIN Customer :
             Customer'[c].date_joined = Customer[c].date_joined
       /\ \A o \in DOMAIN Order' \ DOMAIN Order : Order'[o].created_at = now
       /\ \A o \in DOMAIN Order' \cap DOMAIN Order :
             Order'[o].created_at = Order[o].created_at]_vars
C6_Witness ==
    /\ result = Saved
    /\ Customer # <<>>
    /\ Order # <<>>
    /\ \A c \in DOMAIN Customer : Customer[c].date_joined < now
    /\ \A o \in DOMAIN Order : Order[o].created_at < now

\* C7: in every reachable state every stored Order references a stored
\* Customer, lies in the orders collection of exactly one Customer, and the
\* orders collections of the stored Customers together hold every stored Order.
C7_OrdersBelongToOneCustomer ==
    /\ \A o \in DOMAIN Order : Order[o].customer \in DOMAIN Customer
    /\ \A o \in DOMAIN Order :
          Cardinality({c \in DOMAIN Customer : o \in orders(c)}) = 1
    /\ UNION {orders(c) : c \in DOMAIN Customer} = DOMAIN Order
C7_Witness ==
    /\ result = Deleted(2)
    /\ Customer # <<>>
    /\ Order # <<>>

\* C8: the display string of a Customer is first_name, one space, last_name
\* ("Ada Lovelace" for "Ada" and "Lovelace"), and two Customers with the same
\* first_name and last_name have the same display string whatever their other
\* fields are.
C8_CustomerDisplay ==
    /\ [](\A c1, c2 \in DOMAIN Customer :
             (Customer[c1].first_name = Customer[c2].first_name
                 /\ Customer[c1].last_name = Customer[c2].last_name)
                 => Customer__str__(Customer[c1]) = Customer__str__(Customer[c2]))
    /\ [][\A pk \in CustomerIds :
             Customer_str(pk)
                 => /\ result'.text = Customer[pk].first_name \o " " \o Customer[pk].last_name
                    /\ (Customer[pk].first_name = "Ada" /\ Customer[pk].last_name = "Lovelace")
                           => result'.text = "Ada Lovelace"]_vars
C8_Witness ==
    /\ result = Shown("Ada Lovelace")
    /\ \E c1, c2 \in DOMAIN Customer :
          /\ Customer[c1].first_name = "Ada" /\ Customer[c2].first_name = "Ada"
          /\ Customer[c1].email # Customer[c2].email
          /\ Customer[c1].date_joined # Customer[c2].date_joined

\* C9: the display string of an Order is its order_number, and in every
\* reachable state two distinct stored Orders have different display strings.
C9_OrderDisplay ==
    /\ [](\A o1, o2 \in DOMAIN Order :
             o1 # o2 => Order__str__(Order[o1]) # Order__str__(Order[o2]))
    /\ [][\A pk \in OrderIds :
             Order_str(pk) => result'.text = Order[pk].order_number]_vars
C9_Witness ==
    /\ result = Shown("ORD-1")
    /\ Cardinality(DOMAIN Order) = 2

\* C10: deleting Customer c leaves every other Customer, and every Order of
\* another Customer, stored and unchanged; deleting an Order leaves every
\* Customer and every other Order stored and unchanged.
C10_DeleteFrame ==
    [][/\ \A pk \in CustomerIds :
             Customer_delete(pk)
                 => /\ \A c \in DOMAIN Customer \ {pk} :
                          c \in DOMAIN Customer' /\ Customer'[c] = Customer[c]
                    /\ \A o \in DOMAIN Order :
                          Order[o].customer # pk
                              => (o \in DOMAIN Order' /\ Order'[o] = Order[o])
       /\ \A pk \in OrderIds :
             Order_delete(pk)
                 => /\ Customer' = Customer
                    /\ \A o \in DOMAIN Order \ {pk} :
                          o \in DOMAIN Order' /\ Order'[o] = Order[o]]_vars
C10_Witness ==
    /\ result = Deleted(1)
    /\ Cardinality(DOMAIN Customer) = 1
    /\ Cardinality(DOMAIN Order) = 2
    /\ DeletedCustomers # {}

====
